---- MODULE Spec2Model ----
(***************************************************************************)
(* Block-and-line bookkeeping of the Immix collector (src/src/block.rs):   *)
(* the per-block line mark bitmap LineMap and the block header ImmixBlock. *)
(*                                                                         *)
(* A machine word (usize) is represented by the set of its one-bits:       *)
(* bit k of the word is set iff k is in the set.  |, &, ^, ! are then      *)
(* union, intersection, symmetric difference and complement, 1 << k is     *)
(* {k}, and (1 << k) - 1 is 0 .. k-1.  The geometry is the real one        *)
(* (256 lines of 128 bytes, 64 bit words, four words per line map).        *)
(***************************************************************************)
EXTENDS Integers, Sequences, FiniteSets, TLC

(***************************************************************************)
(* Geometry                                                                *)
(***************************************************************************)
LINE_SIZE == 128

BLOCK_SIZE == 32768

NUM_LINES_PER_BLOCK == BLOCK_SIZE \div LINE_SIZE

\* core::mem::size_of::<usize>() and the number of bits of a usize
WORD_BYTES == 8

WORD_BITS == WORD_BYTES * 8

\* number of values of a u16 (the offset type of scan_block)
U16 == 65536

\* the alignment scan_block rounds the low offset of a hole up to
ALLOC_ALIGNMENT == 16

round_up(x, divisor) == ((x + divisor - 1) \div divisor) * divisor

align_usize(value, align) == ((value + align - 1) \div align) * align

BITMAP_SIZE ==
    LET bytes_covered_per_word == LINE_SIZE * WORD_BITS
    IN  (round_up(BLOCK_SIZE, bytes_covered_per_word) \div bytes_covered_per_word)
            * WORD_BYTES

\* length of the array bitmap_
NumWords == BITMAP_SIZE \div WORD_BYTES

(***************************************************************************)
(* Bounds of the model                                                     *)
(***************************************************************************)
\* the block lives at one of the first MaxBlocks block-aligned addresses
MaxBlocks == 1

\* LineMap operations are tried on lines 0 .. MaxProbe, on both sides of
\* the first word boundary and on the last line of the block
MaxProbe == 1

BlockBases == { k * BLOCK_SIZE : k \in 1 .. MaxBlocks }

ProbeLines == (0 .. MaxProbe) \cup { WORD_BITS - 1, WORD_BITS, NUM_LINES_PER_BLOCK - 1 }

\* byte offsets inside a line at which an address is taken
ProbeInLine == { 0, LINE_SIZE - 1 }

ProbeOffsets == { l * LINE_SIZE + d : l \in ProbeLines, d \in ProbeInLine }

\* offsets of the ends of a visited range: line starts, one address inside
\* a line, and the end of the block
VisitOffsets == { l * LINE_SIZE : l \in ProbeLines \cup { l + 1 : l \in ProbeLines } }
                    \cup { LINE_SIZE + 16 }

\* at most MaxLive objects of the block live at a time
MaxLive == 2

\* objects start in line 10 and in the last line of the block, at the start
\* of the line or 16 bytes before its end
ObjLines == { 10, NUM_LINES_PER_BLOCK - 1 }

ObjInLine == { 0, LINE_SIZE - 16 }

ObjSizes == { 48, LINE_SIZE, 300 }

\* the objects of the block: offset and size, the object inside the block
Objects == { o \in [ at : { l * LINE_SIZE + d : l \in ObjLines, d \in ObjInLine },
                     size : ObjSizes ] : o.at + o.size <= BLOCK_SIZE }

Overlap(o, p) == o.at < p.at + p.size /\ p.at < o.at + o.size

\* the cursors scan_block is called with: 0, the last byte of a line, an
\* offset inside a line, and the largest u16
BlockCursors == { 0, 10 * LINE_SIZE - 1, U16 - 1 }

ScanCursors == { 0, 2 * LINE_SIZE + 44, U16 - 1 }
                 \cup { l * LINE_SIZE - 1 :
                          l \in { 2, 5, NUM_LINES_PER_BLOCK - 2, NUM_LINES_PER_BLOCK } }

\* the line maps a scan is tried on mark any of the lines 1 .. MaxScanLine
\* and of the last three lines of the block
MaxScanLine == 4

ScanLines == (1 .. MaxScanLine)
                 \cup ((NUM_LINES_PER_BLOCK - 3) .. (NUM_LINES_PER_BLOCK - 1))

\* and three more: every line but the last marked, every second line of the
\* first lines marked, every line marked
ScanPatterns == { 0 .. (NUM_LINES_PER_BLOCK - 2),
                  { l \in 0 .. (NUM_LINES_PER_BLOCK \div 8) : l % 2 = 1 },
                  0 .. (NUM_LINES_PER_BLOCK - 1) }

\* two collector threads mark lines 0 .. MaxRaceLine of the first word and
\* the first line of the second word
MaxRaceLine == 1

RaceLines == (0 .. MaxRaceLine) \cup { WORD_BITS }

Workers == { "w1", "w2" }

(***************************************************************************)
(* State                                                                   *)
(***************************************************************************)
VARIABLES
    begin,                  \* ImmixBlock::begin(): the address of the block
    build,                  \* "debug" (overflow checks on) or "release"
    bitmap_,                \* LineMap::bitmap_: word index -> word
    allocated,              \* ImmixBlock::allocated
    hole_count,             \* ImmixBlock::hole_count
    evacuation_candidate,   \* ImmixBlock::evacuation_candidate
    op,                     \* the last operation: name, arguments, results
    prev_bitmap,            \* bitmap_ as it was when the last operation began
                            \* (mark and unmark of one object: when the mark began)
    panicked,               \* a Rust panic has ended the program
    live,                   \* the objects marked and not unmarked since
    sweep,                  \* the allocator's walk over the holes of the block
    workers                 \* the collector threads inside LineMap::set

vars == << begin, build, bitmap_, allocated, hole_count, evacuation_candidate,
           op, prev_bitmap, panicked, live, sweep, workers >>

SweepIdle == [ active |-> FALSE, done |-> FALSE, cursor |-> 0, calls |-> 0,
               regions |-> << >> ]

WorkerIdle == [ pc |-> "idle", object |-> 0, entry |-> {}, ret |-> FALSE ]

\* name; arguments a, b; results ret, num, out; wide: the offsets of
\* scan_block before they are cast to u16; cursors: the cursors of the calls
\* of scan_block, the calls it makes of itself included; follows_mark: the
\* operation is the unmark of the object that the operation before it marked
NoOp == [ name |-> "none", a |-> 0, b |-> 0, ret |-> FALSE, num |-> 0,
          out |-> << >>, wide |-> << >>, cursors |-> << >>, panic |-> FALSE,
          follows_mark |-> FALSE ]

(***************************************************************************)
(* Machine words                                                           *)
(***************************************************************************)
AllOnes == 0 .. (WORD_BITS - 1)

Xor(v, w) == (v \ w) \cup (w \ v)

Not(w) == AllOnes \ w

\* usize::trailing_zeros of a non-zero word
trailing_zeros(w) == CHOOSE k \in w : \A j \in w : k <= j

\* 1 << k on usize: a shift by WORD_BITS or more panics in a build with
\* overflow checks and shifts by k mod WORD_BITS in a build without
ShlOverflows(k, bld) == bld = "debug" /\ k >= WORD_BITS

Shl1(k) == { k % WORD_BITS }

\* (1 << k) - 1
Shl1Minus1(k) == 0 .. ((k % WORD_BITS) - 1)

(***************************************************************************)
(* LineMap                                                                 *)
(***************************************************************************)
\* LineMap::new
LineMapNew == [ i \in 0 .. (NumWords - 1) |-> {} ]

\* a clear_all that stops before the last word
clear_all_but_last(bm) == [ i \in DOMAIN bm |-> IF i < NumWords - 1 THEN {} ELSE bm[i] ]

clear_all(bm) == [ i \in DOMAIN bm |-> {} ]

LineMap_is_empty(bm) == \A i \in DOMAIN bm : bm[i] = {}

offset_bit_index(offset) == (offset \div LINE_SIZE) % WORD_BITS

offset_to_index(offset) == (offset \div LINE_SIZE) \div WORD_BITS

index_to_offset(index) == index * LINE_SIZE * WORD_BITS

\* a mask taken from the byte offset, not from the line
offset_to_mask_of_byte(offset) == Shl1(offset % WORD_BITS)

offset_to_mask(offset) == Shl1((offset \div LINE_SIZE) % WORD_BITS)

\* indexing bitmap_ out of its bounds panics
InBounds(index) == index >= 0 /\ index < NumWords

\* bitmap_[index] panics when the address lies past the lines the words cover
IndexPanics(object, heap_begin) == ~InBounds(offset_to_index(object - heap_begin))

test(bm, object, heap_begin) ==
    (bm[offset_to_index(object - heap_begin)]
        \cap offset_to_mask(object - heap_begin)) # {}

\* a set that reports a change also on a line that is marked
set_reports_always(bm, object, heap_begin) ==
    LET offset == object - heap_begin
        index  == offset_to_index(offset)
        mask   == offset_to_mask(offset)
    IN  [ bitmap |-> [ bm EXCEPT ![index] = @ \cup mask ], ret |-> TRUE ]

\* a set whose mask also holds the bit of the next line
set_with_next_line(bm, object, heap_begin) ==
    LET offset == object - heap_begin
        index  == offset_to_index(offset)
        mask   == offset_to_mask(offset) \cup Shl1(offset_bit_index(offset) + 1)
    IN  IF (bm[index] \cap mask) = {}
        THEN [ bitmap |-> [ bm EXCEPT ![index] = @ \cup mask ], ret |-> TRUE ]
        ELSE [ bitmap |-> bm, ret |-> FALSE ]

\* set and clear: the line map after the call and the value returned
set(bm, object, heap_begin) ==
    LET offset == object - heap_begin
        index  == offset_to_index(offset)
        mask   == offset_to_mask(offset)
    IN  IF (bm[index] \cap mask) = {}
        THEN [ bitmap |-> [ bm EXCEPT ![index] = @ \cup mask ], ret |-> TRUE ]
        ELSE [ bitmap |-> bm, ret |-> FALSE ]

clear(bm, object, heap_begin) ==
    LET offset == object - heap_begin
        index  == offset_to_index(offset)
        mask   == offset_to_mask(offset)
    IN  IF (bm[index] \cap mask) # {}
        THEN [ bitmap |-> [ bm EXCEPT ![index] = @ \cap Not(mask) ], ret |-> TRUE ]
        ELSE [ bitmap |-> bm, ret |-> FALSE ]

\* the loop that visits the one-bits of a word, lowest first:
\* while { shift = w.trailing_zeros(); visitor(ptr_base + shift * LINE_SIZE);
\*         w ^= 1 << shift; w != 0 } {}
RECURSIVE visit_word(_, _)
visit_word(w, ptr_base) ==
    IF w = {}
    THEN << >>
    ELSE LET shift == trailing_zeros(w)
         IN  << ptr_base + shift * LINE_SIZE >>
                 \o visit_word(Xor(w, Shl1(shift)), ptr_base)

\* for i in index_start + 1..index_end { visit the word bitmap_[i] }
RECURSIVE visit_interior(_, _, _, _)
visit_interior(bm, i, index_end, heap_begin) ==
    IF i >= index_end
    THEN [ out |-> << >>, panic |-> FALSE ]
    ELSE IF ~InBounds(i)
    THEN [ out |-> << >>, panic |-> TRUE ]
    ELSE LET rest == visit_interior(bm, i + 1, index_end, heap_begin)
         IN  [ out   |-> visit_word(bm[i], index_to_offset(i) + heap_begin) \o rest.out,
               panic |-> rest.panic ]

\* the addresses handed to the visitor, in order, and whether the call panics
visit_marked_range(bm, heap_begin, visit_begin, visit_end, bld) ==
    LET offset_start == visit_begin - heap_begin
        offset_end   == visit_end - heap_begin
        index_start  == offset_to_index(offset_start)
        index_end    == offset_to_index(offset_end)
        bit_start    == (offset_start \div LINE_SIZE) * WORD_BITS
        bit_end      == (offset_end \div LINE_SIZE) * WORD_BITS
    IN  IF ~InBounds(index_start) \/ ShlOverflows(bit_start, bld)
        THEN [ out |-> << >>, panic |-> TRUE ]
        ELSE
        LET left_edge == bm[index_start] \cap Not(Shl1Minus1(bit_start))
        IN  IF index_start < index_end
            THEN LET first == visit_word(left_edge, index_to_offset(index_start) + heap_begin)
                     mid   == visit_interior(bm, index_start + 1, index_end, heap_begin)
                 IN  IF mid.panic \/ (bit_end # 0 /\ ~InBounds(index_end))
                            \/ ShlOverflows(bit_end, bld)
                     THEN [ out |-> first \o mid.out, panic |-> TRUE ]
                     ELSE LET right_edge ==
                                  (IF bit_end = 0 THEN {} ELSE bm[index_end])
                                      \cap Shl1Minus1(bit_end)
                          IN  [ out |-> first \o mid.out
                                          \o visit_word(right_edge,
                                                index_to_offset(index_end) + heap_begin),
                                panic |-> FALSE ]
            ELSE IF ShlOverflows(bit_end, bld)
                 THEN [ out |-> << >>, panic |-> TRUE ]
                 ELSE LET right_edge == left_edge \cap Shl1Minus1(bit_end)
                      IN  [ out |-> visit_word(right_edge,
                                        index_to_offset(index_end) + heap_begin),
                            panic |-> FALSE ]

(***************************************************************************)
(* ImmixBlock                                                              *)
(***************************************************************************)
\* a block pointer taken from the line of the address, not from its block
get_block_ptr_of_line(object) == object - (object % LINE_SIZE)

\* get_block_ptr: the address minus its remainder modulo BLOCK_SIZE
get_block_ptr(object) == object - (object % BLOCK_SIZE)

\* a range that holds the base of the block and not the address of its end
is_in_block_half_open(alloc, b, p) ==
    IF alloc
    THEN LET e == b + BLOCK_SIZE
         IN  b <= p /\ p < e
    ELSE FALSE

is_in_block(alloc, b, p) ==
    IF alloc
    THEN LET e == b + BLOCK_SIZE
         IN  b < p /\ p <= e
    ELSE FALSE

\* an object is its offset in the block and its size in bytes
\* (RawGc::object_size)
object_to_line_num(object) == (object % BLOCK_SIZE) \div LINE_SIZE

line_is_marked(bm, b, line) == test(bm, b + line * LINE_SIZE, b)

\* the first index of from .. NUM_LINES_PER_BLOCK - 1 whose mark is wanted,
\* -1 if there is none: the loops of scan_block that break at the first
\* such line (the lines are looked at sixteen at a time)
RECURSIVE FirstLine(_, _, _, _)
FirstLine(bm, b, from, wanted) ==
    IF from >= NUM_LINES_PER_BLOCK
    THEN -1
    ELSE LET last  == IF from + 16 <= NUM_LINES_PER_BLOCK
                      THEN from + 15 ELSE NUM_LINES_PER_BLOCK - 1
             found == { index \in from .. last : line_is_marked(bm, b, index) = wanted }
         IN  IF found # {}
             THEN CHOOSE index \in found : \A other \in found : index <= other
             ELSE FirstLine(bm, b, last + 1, wanted)

None == [ some |-> FALSE, low |-> 0, high |-> 0, wide |-> << >>, retries |-> 0,
          cursors |-> << >> ]

\* scan_block; entered: the cursors of the calls of the recursion before this
\* one.  The result tells the number of times scan_block has called itself
\* and the cursors of all its calls
RECURSIVE scan_block_retry(_, _, _, _)
\* a scan without the two conservative skips: it starts at the cursor's own
\* line and takes the first unmarked line as the low line
scan_block_no_skip(bm, b, last_high_offset, entered) ==
    LET last_high_index == last_high_offset \div LINE_SIZE
        unmarked   == FirstLine(bm, b, last_high_index, FALSE)
        low_index  == IF unmarked = -1 THEN NUM_LINES_PER_BLOCK - 1 ELSE unmarked
        marked     == FirstLine(bm, b, low_index, TRUE)
        high_index == IF marked = -1 THEN NUM_LINES_PER_BLOCK ELSE marked
    IN  IF low_index = high_index /\ high_index # NUM_LINES_PER_BLOCK - 1
        THEN scan_block_retry(bm, b, (high_index * LINE_SIZE - 1) % U16,
                              Append(entered, last_high_offset))
        ELSE IF low_index < NUM_LINES_PER_BLOCK - 1
        THEN [ some    |-> TRUE,
               low     |-> align_usize(low_index * LINE_SIZE, ALLOC_ALIGNMENT) % U16,
               high    |-> (high_index * LINE_SIZE - 1) % U16,
               wide    |-> << align_usize(low_index * LINE_SIZE, ALLOC_ALIGNMENT),
                              high_index * LINE_SIZE - 1 >>,
               retries |-> Len(entered),
               cursors |-> Append(entered, last_high_offset) ]
        ELSE [ None EXCEPT !.retries = Len(entered),
                           !.cursors = Append(entered, last_high_offset) ]

\* a scan whose high offset is the first byte of the marked line
scan_block_high_plus_one(bm, b, last_high_offset, entered) ==
    LET last_high_index == last_high_offset \div LINE_SIZE
        unmarked   == FirstLine(bm, b, last_high_index + 1, FALSE)
        low_index  == IF unmarked = -1 THEN NUM_LINES_PER_BLOCK - 1 ELSE unmarked + 1
        marked     == FirstLine(bm, b, low_index, TRUE)
        high_index == IF marked = -1 THEN NUM_LINES_PER_BLOCK ELSE marked
    IN  IF low_index = high_index /\ high_index # NUM_LINES_PER_BLOCK - 1
        THEN scan_block_retry(bm, b, (high_index * LINE_SIZE - 1) % U16,
                              Append(entered, last_high_offset))
        ELSE IF low_index < NUM_LINES_PER_BLOCK - 1
        THEN [ some    |-> TRUE,
               low     |-> align_usize(low_index * LINE_SIZE, ALLOC_ALIGNMENT) % U16,
               high    |-> (high_index * LINE_SIZE) % U16,
               wide    |-> << align_usize(low_index * LINE_SIZE, ALLOC_ALIGNMENT),
                              high_index * LINE_SIZE >>,
               retries |-> Len(entered),
               cursors |-> Append(entered, last_high_offset) ]
        ELSE [ None EXCEPT !.retries = Len(entered),
                           !.cursors = Append(entered, last_high_offset) ]

\* a scan that retries also when the one line is the last line of the block
\* (it gives up when it has called itself eight times)
scan_block_unguarded(bm, b, last_high_offset, entered) ==
    LET last_high_index == last_high_offset \div LINE_SIZE
        unmarked   == FirstLine(bm, b, last_high_index + 1, FALSE)
        low_index  == IF unmarked = -1 THEN NUM_LINES_PER_BLOCK - 1 ELSE unmarked + 1
        marked     == FirstLine(bm, b, low_index, TRUE)
        high_index == IF marked = -1 THEN NUM_LINES_PER_BLOCK ELSE marked
    IN  IF low_index = high_index /\ Len(entered) < 8
        THEN scan_block_retry(bm, b, (high_index * LINE_SIZE - 1) % U16,
                              Append(entered, last_high_offset))
        ELSE IF low_index < NUM_LINES_PER_BLOCK - 1
        THEN [ some    |-> TRUE,
               low     |-> align_usize(low_index * LINE_SIZE, ALLOC_ALIGNMENT) % U16,
               high    |-> (high_index * LINE_SIZE - 1) % U16,
               wide    |-> << align_usize(low_index * LINE_SIZE, ALLOC_ALIGNMENT),
                              high_index * LINE_SIZE - 1 >>,
               retries |-> Len(entered),
               cursors |-> Append(entered, last_high_offset) ]
        ELSE [ None EXCEPT !.retries = Len(entered),
                           !.cursors = Append(entered, last_high_offset) ]

scan_block_retry(bm, b, last_high_offset, entered) ==
    LET last_high_index == last_high_offset \div LINE_SIZE
        unmarked   == FirstLine(bm, b, last_high_index + 1, FALSE)
        low_index  == IF unmarked = -1 THEN NUM_LINES_PER_BLOCK - 1 ELSE unmarked + 1
        marked     == FirstLine(bm, b, low_index, TRUE)
        high_index == IF marked = -1 THEN NUM_LINES_PER_BLOCK ELSE marked
    IN  IF low_index = high_index /\ high_index # NUM_LINES_PER_BLOCK - 1
        THEN scan_block_retry(bm, b, (high_index * LINE_SIZE - 1) % U16,
                              Append(entered, last_high_offset))
        ELSE IF low_index < NUM_LINES_PER_BLOCK - 1
        THEN [ some    |-> TRUE,
               low     |-> align_usize(low_index * LINE_SIZE, ALLOC_ALIGNMENT) % U16,
               high    |-> (high_index * LINE_SIZE - 1) % U16,
               wide    |-> << align_usize(low_index * LINE_SIZE, ALLOC_ALIGNMENT),
                              high_index * LINE_SIZE - 1 >>,
               retries |-> Len(entered),
               cursors |-> Append(entered, last_high_offset) ]
        ELSE [ None EXCEPT !.retries = Len(entered),
                           !.cursors = Append(entered, last_high_offset) ]

\* a scan that takes the cursor to lie one line further
scan_block_of_next_line(bm, b, last_high_offset) ==
    scan_block_retry(bm, b, last_high_offset + LINE_SIZE, << >>)

scan_block(bm, b, last_high_offset) == scan_block_retry(bm, b, last_high_offset, << >>)

\* one iteration of the loop of count_holes: the match on (in_hole, test)
count_holes_step(bm, b, i, st) ==
    IF ~st.in_hole /\ ~line_is_marked(bm, b, i)
    THEN [ in_hole |-> TRUE, holes |-> st.holes + 1 ]
    ELSE [ in_hole |-> FALSE, holes |-> st.holes ]

\* the iterations for i in from..to, in order (the range is halved to keep
\* the evaluation shallow)
RECURSIVE count_holes_loop(_, _, _, _, _)
count_holes_loop(bm, b, from, to, st) ==
    IF from >= to
    THEN st
    ELSE IF to = from + 1
    THEN count_holes_step(bm, b, from, st)
    ELSE LET mid  == (from + to) \div 2
             half == count_holes_loop(bm, b, from, mid, st)
         IN  IF half.holes >= 0    \* holes: usize; the first half is done first
             THEN count_holes_loop(bm, b, mid, to, half)
             ELSE half

count_holes(bm, b) ==
    count_holes_loop(bm, b, 0, NUM_LINES_PER_BLOCK,
                     [ in_hole |-> FALSE, holes |-> 0 ]).holes

ImmixBlock_is_empty(bm, b) ==
    \A i \in 0 .. (NUM_LINES_PER_BLOCK - 1) : ~line_is_marked(bm, b, i)

\* for line in line_num..(line_num + size / LINE_SIZE + 1): set or clear
RECURSIVE modify_lines(_, _, _, _, _)
modify_lines(bm, b, line, end, mark) ==
    IF line >= end
    THEN [ bitmap |-> bm, panic |-> FALSE ]
    ELSE IF IndexPanics(b + line * LINE_SIZE, b)
    THEN [ bitmap |-> bm, panic |-> TRUE ]
    ELSE LET r == IF mark THEN set(bm, b + line * LINE_SIZE, b)
                          ELSE clear(bm, b + line * LINE_SIZE, b)
         IN  modify_lines(r.bitmap, b, line + 1, end, mark)

\* a marking of size / LINE_SIZE lines, without the conservative line
modify_line_exact(bm, b, object, size, mark) ==
    LET line_num == object_to_line_num(object)
    IN  modify_lines(bm, b, line_num, line_num + (size \div LINE_SIZE), mark)

modify_line(bm, b, object, size, mark) ==
    LET line_num == object_to_line_num(object)
    IN  modify_lines(bm, b, line_num, line_num + (size \div LINE_SIZE) + 1, mark)

\* a count that counts the holes again instead of taking the cached count
count_holes_and_marked_lines_recounted(bm, b, holes) ==
    << count_holes(bm, b),
       Cardinality({ line \in 0 .. (NUM_LINES_PER_BLOCK - 1) :
                       line_is_marked(bm, b, line) }) >>

count_holes_and_marked_lines(bm, b, holes) ==
    << holes,
       Cardinality({ line \in 0 .. (NUM_LINES_PER_BLOCK - 1) :
                       line_is_marked(bm, b, line) }) >>

\* a count of the available lines that leaves the last line out
count_holes_and_available_lines_short(bm, b, holes) ==
    << holes,
       Cardinality({ line \in 0 .. (NUM_LINES_PER_BLOCK - 2) :
                       ~line_is_marked(bm, b, line) }) >>

count_holes_and_available_lines(bm, b, holes) ==
    << holes,
       Cardinality({ line \in 0 .. (NUM_LINES_PER_BLOCK - 1) :
                       ~line_is_marked(bm, b, line) }) >>

(***************************************************************************)
(* Initial state: ImmixBlock::new at a block-aligned address               *)
(***************************************************************************)
Builds == { "debug", "release" }

Construct(bld) ==
    /\ begin \in BlockBases
    /\ build = bld
    /\ bitmap_ = LineMapNew
    /\ allocated = FALSE
    /\ hole_count = 0
    /\ evacuation_candidate = FALSE
    /\ op = NoOp
    /\ prev_bitmap = LineMapNew
    /\ panicked = FALSE
    /\ live = {}
    /\ sweep = SweepIdle
    /\ workers = [ w \in Workers |-> WorkerIdle ]

\* overflow checks matter to visit_marked_range only
InitLineMap == \E bld \in Builds : Construct(bld)

(***************************************************************************)
(* The operations of LineMap, called one at a time                         *)
(***************************************************************************)
BlockFields == << allocated, hole_count, evacuation_candidate, live, sweep, workers >>

LMSet(offset) ==
    /\ ~panicked
    /\ IF IndexPanics(begin + offset, begin)
       THEN /\ bitmap_' = bitmap_
            /\ op' = [ NoOp EXCEPT !.name = "set", !.a = begin + offset,
                                   !.panic = TRUE ]
            /\ panicked' = TRUE
       ELSE LET r == set(bitmap_, begin + offset, begin)
            IN  /\ bitmap_' = r.bitmap
                /\ op' = [ NoOp EXCEPT !.name = "set", !.a = begin + offset,
                                       !.ret = r.ret ]
                /\ panicked' = FALSE
    /\ prev_bitmap' = bitmap_
    /\ UNCHANGED << begin, build, BlockFields >>

LMClear(offset) ==
    /\ ~panicked
    /\ IF IndexPanics(begin + offset, begin)
       THEN /\ bitmap_' = bitmap_
            /\ op' = [ NoOp EXCEPT !.name = "clear", !.a = begin + offset,
                                   !.panic = TRUE ]
            /\ panicked' = TRUE
       ELSE LET r == clear(bitmap_, begin + offset, begin)
            IN  /\ bitmap_' = r.bitmap
                /\ op' = [ NoOp EXCEPT !.name = "clear", !.a = begin + offset,
                                       !.ret = r.ret ]
                /\ panicked' = FALSE
    /\ prev_bitmap' = bitmap_
    /\ UNCHANGED << begin, build, BlockFields >>

LMTest(offset) ==
    /\ ~panicked
    /\ IF IndexPanics(begin + offset, begin)
       THEN /\ op' = [ NoOp EXCEPT !.name = "test", !.a = begin + offset,
                                   !.panic = TRUE ]
            /\ panicked' = TRUE
       ELSE /\ op' = [ NoOp EXCEPT !.name = "test", !.a = begin + offset,
                                   !.ret = test(bitmap_, begin + offset, begin) ]
            /\ panicked' = FALSE
    /\ prev_bitmap' = bitmap_
    /\ UNCHANGED << begin, build, bitmap_, BlockFields >>

LMClearAll ==
    /\ ~panicked
    /\ bitmap_' = clear_all(bitmap_)
    /\ op' = [ NoOp EXCEPT !.name = "clear_all" ]
    /\ prev_bitmap' = bitmap_
    /\ UNCHANGED << begin, build, BlockFields, panicked >>

LMIsEmpty ==
    /\ ~panicked
    /\ op' = [ NoOp EXCEPT !.name = "is_empty", !.ret = LineMap_is_empty(bitmap_) ]
    /\ prev_bitmap' = bitmap_
    /\ UNCHANGED << begin, build, bitmap_, BlockFields, panicked >>

LMVisit(from, to) ==
    /\ ~panicked
    /\ from <= to
    /\ LET r == visit_marked_range(bitmap_, begin, begin + from, begin + to, build)
       IN  /\ op' = [ NoOp EXCEPT !.name = "visit_marked_range",
                                  !.a = begin + from, !.b = begin + to,
                                  !.out = r.out, !.panic = r.panic ]
           /\ panicked' = r.panic
    /\ prev_bitmap' = bitmap_
    /\ UNCHANGED << begin, build, bitmap_, BlockFields >>

NextLineMap ==
    \/ \E offset \in ProbeOffsets : LMSet(offset)
    \/ \E offset \in ProbeOffsets : LMClear(offset)
    \/ \E offset \in ProbeOffsets : LMTest(offset)
    \/ LMClearAll
    \/ LMIsEmpty
    \/ \E from \in VisitOffsets, to \in VisitOffsets : LMVisit(from, to)

SpecLineMap == InitLineMap /\ [][NextLineMap]_vars

(***************************************************************************)
(* The operations of ImmixBlock, called one at a time by the thread that   *)
(* owns the block                                                          *)
(***************************************************************************)
Init == Construct("release")

\* the tracer marks an object of the block it has not marked yet: the block
\* has been allocated into, and the object lies where no marked object lies
LineObjectMark(o) ==
    /\ ~panicked
    /\ allocated
    /\ \A p \in live : ~Overlap(o, p)
    /\ Cardinality(live \cup { o }) <= MaxLive
    /\ LET r == modify_line(bitmap_, begin, begin + o.at, o.size, TRUE)
       IN  /\ bitmap_' = r.bitmap
           /\ op' = [ NoOp EXCEPT !.name = "line_object_mark", !.a = o.at,
                                  !.b = o.size, !.panic = r.panic ]
           /\ panicked' = r.panic
           /\ live' = IF r.panic THEN live ELSE live \cup { o }
    /\ prev_bitmap' = bitmap_
    /\ UNCHANGED << begin, build, sweep, workers, allocated, hole_count, evacuation_candidate >>

\* an object that was marked is unmarked
LineObjectUnmark(o) ==
    /\ ~panicked
    /\ o \in live
    /\ LET r == modify_line(bitmap_, begin, begin + o.at, o.size, FALSE)
           follows == op.name = "line_object_mark" /\ op.a = o.at /\ op.b = o.size
       IN  /\ bitmap_' = r.bitmap
           /\ op' = [ NoOp EXCEPT !.name = "line_object_unmark", !.a = o.at,
                                  !.b = o.size, !.panic = r.panic,
                                  !.follows_mark = follows ]
           /\ panicked' = r.panic
           \* after mark and unmark of an object, the line map before the mark
           /\ prev_bitmap' = IF follows THEN prev_bitmap ELSE bitmap_
    /\ live' = live \ { o }
    /\ UNCHANGED << begin, build, sweep, workers, allocated, hole_count, evacuation_candidate >>

\* the block returns to the free pool: no object lives in it
Reset ==
    /\ ~panicked
    /\ bitmap_' = clear_all(bitmap_)
    /\ allocated' = FALSE
    /\ hole_count' = 0
    /\ evacuation_candidate' = FALSE
    /\ live' = {}
    /\ op' = [ NoOp EXCEPT !.name = "reset" ]
    /\ prev_bitmap' = bitmap_
    /\ UNCHANGED << begin, build, sweep, workers, panicked >>

CountHoles ==
    /\ ~panicked
    /\ LET holes == count_holes(bitmap_, begin)
       IN  /\ hole_count' = holes
           /\ op' = [ NoOp EXCEPT !.name = "count_holes", !.num = holes ]
    /\ prev_bitmap' = bitmap_
    /\ UNCHANGED << begin, build, sweep, workers, bitmap_, allocated, evacuation_candidate,
                    panicked, live >>

\* the allocator asks for one hole, when it is not walking over the holes
ScanBlock(last_high_offset) ==
    /\ ~panicked
    /\ ~sweep.active
    /\ LET r == scan_block(bitmap_, begin, last_high_offset)
       IN  op' = [ NoOp EXCEPT !.name = "scan_block", !.a = last_high_offset,
                               !.ret = r.some, !.num = r.retries,
                               !.out = << r.low, r.high >>, !.wide = r.wide,
                               !.cursors = r.cursors ]
    /\ prev_bitmap' = bitmap_
    /\ UNCHANGED << begin, build, sweep, workers, bitmap_, BlockFields, panicked >>

CountHolesAndMarkedLines ==
    /\ ~panicked
    /\ op' = [ NoOp EXCEPT !.name = "count_holes_and_marked_lines",
                   !.out = count_holes_and_marked_lines(bitmap_, begin, hole_count) ]
    /\ prev_bitmap' = bitmap_
    /\ UNCHANGED << begin, build, sweep, workers, bitmap_, BlockFields, panicked >>

CountHolesAndAvailableLines ==
    /\ ~panicked
    /\ op' = [ NoOp EXCEPT !.name = "count_holes_and_available_lines",
                   !.out = count_holes_and_available_lines(bitmap_, begin, hole_count) ]
    /\ prev_bitmap' = bitmap_
    /\ UNCHANGED << begin, build, sweep, workers, bitmap_, BlockFields, panicked >>

IsEmpty ==
    /\ ~panicked
    /\ op' = [ NoOp EXCEPT !.name = "is_empty",
                           !.ret = ImmixBlock_is_empty(bitmap_, begin) ]
    /\ prev_bitmap' = bitmap_
    /\ UNCHANGED << begin, build, sweep, workers, bitmap_, BlockFields, panicked >>

\* the allocator takes the block (it writes the public field allocated)
Allocate ==
    /\ ~panicked
    /\ ~allocated
    /\ allocated' = TRUE
    /\ op' = [ NoOp EXCEPT !.name = "allocate" ]
    /\ prev_bitmap' = bitmap_
    /\ UNCHANGED << begin, build, sweep, workers, bitmap_, hole_count, evacuation_candidate,
                    panicked, live >>

\* the collector selects the block for evacuation
SelectForEvacuation ==
    /\ ~panicked
    /\ allocated
    /\ ~evacuation_candidate
    /\ evacuation_candidate' = TRUE
    /\ op' = [ NoOp EXCEPT !.name = "select_for_evacuation" ]
    /\ prev_bitmap' = bitmap_
    /\ UNCHANGED << begin, build, sweep, workers, bitmap_, allocated, hole_count, panicked, live >>

Next ==
    \/ \E o \in Objects : LineObjectMark(o)
    \/ \E o \in Objects : LineObjectUnmark(o)
    \/ Reset
    \/ CountHoles
    \/ \E c \in BlockCursors : ScanBlock(c)
    \/ CountHolesAndMarkedLines
    \/ CountHolesAndAvailableLines
    \/ IsEmpty
    \/ Allocate
    \/ SelectForEvacuation

Spec == Init /\ [][Next]_vars

(***************************************************************************)
(* The header of a block: get_block_ptr and is_in_block on addresses of    *)
(* the block, of the block below it and of the block above it              *)
(***************************************************************************)
\* offsets in a block at which an address is taken
HeaderOffsets == ProbeOffsets \cup { 1 }

GetBlockPtr(object) ==
    /\ ~panicked
    /\ op' = [ NoOp EXCEPT !.name = "get_block_ptr", !.a = object,
                           !.num = get_block_ptr(object) ]
    /\ prev_bitmap' = bitmap_
    /\ UNCHANGED << begin, build, bitmap_, BlockFields, panicked >>

IsInBlock(p) ==
    /\ ~panicked
    /\ op' = [ NoOp EXCEPT !.name = "is_in_block", !.a = p,
                           !.ret = is_in_block(allocated, begin, p) ]
    /\ prev_bitmap' = bitmap_
    /\ UNCHANGED << begin, build, bitmap_, BlockFields, panicked >>

NextHeader ==
    \/ \E k \in -1 .. 1, d \in HeaderOffsets : GetBlockPtr(begin + k * BLOCK_SIZE + d)
    \/ \E k \in -1 .. 1, d \in HeaderOffsets : IsInBlock(begin + k * BLOCK_SIZE + d)
    \/ Allocate
    \/ Reset

SpecHeader == Init /\ [][NextHeader]_vars

(***************************************************************************)
(* Marks on a block in use: LineMap::set and LineMap::clear on lines of    *)
(* the block, and the marking of objects, while the block is allocated,    *)
(* counted, selected and reset                                             *)
(***************************************************************************)
\* addresses in the second line of the object at line 10 and in the last line
FrameOffsets == { l * LINE_SIZE + d : l \in { 11, NUM_LINES_PER_BLOCK - 1 },
                                      d \in ProbeInLine }

\* the objects that start at the start of a line
FrameObjects == { o \in Objects : o.at % LINE_SIZE = 0 }

NextFrame ==
    \/ \E offset \in FrameOffsets : LMSet(offset)
    \/ \E offset \in FrameOffsets : LMClear(offset)
    \/ \E o \in FrameObjects : LineObjectMark(o)
    \/ \E o \in FrameObjects : LineObjectUnmark(o)
    \/ Allocate
    \/ CountHoles
    \/ SelectForEvacuation
    \/ Reset

SpecFrame == Init /\ [][NextFrame]_vars

(***************************************************************************)
(* The allocator walks the holes of a block whose line map stays as it is: *)
(* scan_block(0), then scan_block(high_offset of the hole before)          *)
(***************************************************************************)
\* the line map in which exactly the lines of S are marked
MapOf(S) == [ i \in 0 .. (NumWords - 1) |->
                { l % WORD_BITS : l \in { x \in S : x \div WORD_BITS = i } } ]

InitScan ==
    /\ begin = BLOCK_SIZE
    /\ build = "release"
    /\ \E S \in (SUBSET ScanLines) \cup ScanPatterns : /\ bitmap_ = MapOf(S)
                                                       /\ prev_bitmap = MapOf(S)
    /\ allocated = TRUE
    /\ hole_count = 0
    /\ evacuation_candidate = FALSE
    /\ op = NoOp
    /\ panicked = FALSE
    /\ live = {}
    /\ sweep = SweepIdle
    /\ workers = [ w \in Workers |-> WorkerIdle ]

SweepStart ==
    /\ ~panicked
    /\ ~sweep.active \/ sweep.done
    /\ sweep' = [ SweepIdle EXCEPT !.active = TRUE ]
    /\ UNCHANGED << begin, build, bitmap_, allocated, hole_count,
                    evacuation_candidate, op, prev_bitmap, panicked, live, workers >>

SweepStep ==
    /\ ~panicked
    /\ sweep.active /\ ~sweep.done
    /\ sweep.calls <= NUM_LINES_PER_BLOCK
    /\ LET r == scan_block(bitmap_, begin, sweep.cursor)
       IN  /\ sweep' = IF r.some
                       THEN [ sweep EXCEPT !.calls = @ + 1, !.cursor = r.high,
                                           !.regions = Append(@, << r.low, r.high >>) ]
                       ELSE [ sweep EXCEPT !.calls = @ + 1, !.done = TRUE ]
           /\ op' = [ NoOp EXCEPT !.name = "scan_block", !.a = sweep.cursor,
                                  !.ret = r.some, !.num = r.retries,
                                  !.out = << r.low, r.high >>, !.wide = r.wide,
                               !.cursors = r.cursors ]
    /\ prev_bitmap' = bitmap_
    /\ UNCHANGED << begin, build, bitmap_, allocated, hole_count,
                    evacuation_candidate, panicked, live, workers >>

NextScan ==
    \/ \E c \in ScanCursors : ScanBlock(c)
    \/ SweepStart
    \/ SweepStep

SpecScan == InitScan /\ [][NextScan]_vars

(***************************************************************************)
(* Two collector threads call LineMap::set on the same block.  The read    *)
(* of the word in the test, the read and the write of `*entry |= mask` are *)
(* separate accesses; the compiler may keep the word read by the test.     *)
(***************************************************************************)
WorkerFrame == << begin, build, allocated, hole_count, evacuation_candidate,
                  op, prev_bitmap, panicked, live, sweep >>

WIndex(w) == offset_to_index(workers[w].object - begin)

WMask(w) == offset_to_mask(workers[w].object - begin)

\* set(object, heap_begin) is entered
WCall(w, line) ==
    /\ workers[w].pc \in { "idle", "done" }
    /\ workers' = [ workers EXCEPT ![w] =
                      [ WorkerIdle EXCEPT !.pc = "test",
                                          !.object = begin + line * LINE_SIZE ] ]
    /\ UNCHANGED << bitmap_, WorkerFrame >>

\* if (*entry & mask) == 0
WTest(w) ==
    /\ workers[w].pc = "test"
    /\ workers' = [ workers EXCEPT ![w] =
                      IF (bitmap_[WIndex(w)] \cap WMask(w)) = {}
                      THEN [ @ EXCEPT !.pc = "modify", !.entry = bitmap_[WIndex(w)] ]
                      ELSE [ @ EXCEPT !.pc = "done", !.ret = FALSE ] ]
    /\ UNCHANGED << bitmap_, WorkerFrame >>

\* the read of *entry |= mask
WLoad(w) ==
    /\ workers[w].pc = "modify"
    /\ workers' = [ workers EXCEPT ![w] =
                      [ @ EXCEPT !.pc = "store", !.entry = bitmap_[WIndex(w)] ] ]
    /\ UNCHANGED << bitmap_, WorkerFrame >>

\* the write of *entry |= mask; return true
WStore(w) ==
    /\ workers[w].pc \in { "modify", "store" }
    /\ bitmap_' = [ bitmap_ EXCEPT ![WIndex(w)] = workers[w].entry \cup WMask(w) ]
    /\ workers' = [ workers EXCEPT ![w] = [ @ EXCEPT !.pc = "done", !.ret = TRUE ] ]
    /\ UNCHANGED WorkerFrame

NextRace ==
    \/ \E w \in Workers, line \in RaceLines : WCall(w, line)
    \/ \E w \in Workers : WTest(w)
    \/ \E w \in Workers : WLoad(w)
    \/ \E w \in Workers : WStore(w)

SpecRace == Init /\ [][NextRace]_vars

(***************************************************************************)
(* Properties                                                              *)
(***************************************************************************)
Lines == 0 .. (NUM_LINES_PER_BLOCK - 1)

LineOf(address) == (address - begin) \div LINE_SIZE

\* C1: when two threads have each completed a set on different lines of
\* one word, both lines test as marked (no mark is lost).
C1_NoMarkLost ==
    \A v \in Workers, w \in Workers :
        ( /\ v # w
          /\ workers[v].pc = "done"
          /\ workers[w].pc = "done"
          /\ WIndex(v) = WIndex(w)
          /\ LineOf(workers[v].object) # LineOf(workers[w].object) )
        => ( /\ test(bitmap_, workers[v].object, begin)
             /\ test(bitmap_, workers[w].object, begin) )

\* C2: a hole returned by scan_block contains no byte of an object that was
\* marked and has not been unmarked since.
C2_NoLiveByteInHole ==
    ( op.name = "scan_block" /\ op.ret )
        => \A o \in live : o.at + o.size - 1 < op.out[1] \/ o.at > op.out[2]

\* the sequence of the elements of a finite set of integers, ascending
RECURSIVE Ascending(_)
Ascending(S) ==
    IF S = {} THEN << >>
    ELSE LET least == CHOOSE x \in S : \A y \in S : x <= y
         IN  << least >> \o Ascending(S \ { least })

\* the start addresses of the marked lines that lie in [visit_begin, visit_end)
MarkedLineStarts(bm, heap_begin, visit_begin, visit_end) ==
    { heap_begin + l * LINE_SIZE : l \in { x \in Lines : (x % WORD_BITS) \in bm[x \div WORD_BITS] } }
        \cap (visit_begin .. (visit_end - 1))

\* C3: visit_marked_range visits exactly the marked lines whose start
\* address lies in [visit_begin, visit_end), once each, in ascending order.
C3_VisitsMarkedLinesOfRange ==
    op.name = "visit_marked_range"
        => ( /\ ~op.panic
             /\ op.out = Ascending(MarkedLineStarts(bitmap_, begin, op.a, op.b)) )

\* the maximal runs of unmarked lines, counted at their first line
HoleRuns(bm, b) ==
    Cardinality({ l \in Lines : /\ ~line_is_marked(bm, b, l)
                                /\ (l = 0 \/ line_is_marked(bm, b, l - 1)) })

\* C4: count_holes returns, and stores in hole_count, the number of maximal
\* runs of unmarked lines.
C4_CountHolesCountsRuns ==
    op.name = "count_holes"
        => ( op.num = HoleRuns(bitmap_, begin) /\ hole_count = op.num )

\* C5: the holes returned by scan_block calls seeded with 0 and then with
\* the high offset of the hole before are disjoint and ascending, and a call
\* returns None before NUM_LINES_PER_BLOCK calls have returned a hole.
C5_SweepAscendsAndEnds ==
    sweep.active =>
        ( /\ \A i \in 1 .. Len(sweep.regions) :
                 sweep.regions[i][1] <= sweep.regions[i][2]
          /\ \A i \in 1 .. (Len(sweep.regions) - 1) :
                 sweep.regions[i][2] < sweep.regions[i + 1][1]
          /\ sweep.calls <= NUM_LINES_PER_BLOCK
          /\ ~sweep.done => sweep.calls < NUM_LINES_PER_BLOCK
          /\ sweep.done => sweep.calls = Len(sweep.regions) + 1 )

C5_Witness ==
    sweep.active /\ sweep.done /\ Len(sweep.regions) >= 2

\* C6: a hole returned by scan_block has low_offset <= high_offset, lies in
\* the block, and its offsets are not changed by the cast to u16.
C6_HoleInsideBlock ==
    ( op.name = "scan_block" /\ op.ret )
        => ( /\ op.out[1] <= op.out[2]
             /\ op.out[2] <= BLOCK_SIZE - 1
             /\ op.out = op.wide )

C6_Witness ==
    /\ op.name = "scan_block" /\ op.ret /\ op.num > 0
    /\ op.out[2] = BLOCK_SIZE - 1

\* the lines that mark_lines_for_object touches for an object
TouchedLines(at, size) ==
    { l \in Lines : /\ l >= at \div LINE_SIZE
                    /\ l < (at \div LINE_SIZE) + (size \div LINE_SIZE) + 1 }

\* C7: after the mark and then the unmark of an object every touched line
\* is in the state it had before the mark.
C7_MarkUnmarkRestores ==
    ( op.name = "line_object_unmark" /\ op.follows_mark /\ ~op.panic )
        => \A l \in TouchedLines(op.a, op.b) :
               line_is_marked(bitmap_, begin, l) = line_is_marked(prev_bitmap, begin, l)

\* C8: set returns true exactly when it changes the line from unmarked to
\* marked, a set on a marked line returns false and changes nothing; clear
\* returns true exactly when it changes the line from marked to unmarked.
C8_SetClearReportChange ==
    /\ ( op.name = "set" /\ ~op.panic )
           => ( /\ op.ret = ~test(prev_bitmap, op.a, begin)
                /\ op.ret => test(bitmap_, op.a, begin)
                /\ ~op.ret => bitmap_ = prev_bitmap )
    /\ ( op.name = "clear" /\ ~op.panic )
           => ( /\ op.ret = test(prev_bitmap, op.a, begin)
                /\ op.ret => ~test(bitmap_, op.a, begin)
                /\ ~op.ret => bitmap_ = prev_bitmap )

C8_Witness ==
    op.name = "set" /\ ~op.panic /\ ~op.ret /\ test(prev_bitmap, op.a, begin)

\* the addresses of the line an address lies in
LineAddresses(address) ==
    { begin + LineOf(address) * LINE_SIZE + d : d \in 0 .. (LINE_SIZE - 1) }

\* C9: after set(a) every address of the line of a tests as marked, after
\* clear(a) every address of that line tests as unmarked.
C9_SetThenTestClearThenTest ==
    /\ ( op.name = "set" /\ ~op.panic )
           => \A address \in LineAddresses(op.a) : test(bitmap_, address, begin)
    /\ ( op.name = "clear" /\ ~op.panic )
           => \A address \in LineAddresses(op.a) : ~test(bitmap_, address, begin)

C9_Witness ==
    /\ op.name = "clear" /\ op.ret
    /\ op.a = begin + WORD_BITS * LINE_SIZE + LINE_SIZE - 1

\* C10: the number of marked lines and the number of available lines add up
\* to NUM_LINES_PER_BLOCK.
C10_MarkedPlusAvailable ==
    count_holes_and_marked_lines(bitmap_, begin, hole_count)[2]
        + count_holes_and_available_lines(bitmap_, begin, hole_count)[2]
            = NUM_LINES_PER_BLOCK

C10_Witness ==
    /\ op.name = "count_holes_and_available_lines"
    /\ op.out[2] < NUM_LINES_PER_BLOCK
    /\ hole_count > 0

\* C11: get_block_ptr of every address of the block [begin, begin +
\* BLOCK_SIZE) is begin, the base of the block; of an address of the block
\* above or below it, it is not begin
C11_BlockPointerRecovered ==
    op.name = "get_block_ptr" =>
        /\ op.a \in begin .. (begin + BLOCK_SIZE - 1) => op.num = begin
        /\ op.a \notin begin .. (begin + BLOCK_SIZE - 1) => op.num # begin

\* the last byte of the block recovers the base of the block
C11_Witness ==
    /\ op.name = "get_block_ptr"
    /\ op.a = begin + BLOCK_SIZE - 1
    /\ op.num = begin

\* C15: is_in_block(p) is true exactly when the block is allocated and p
\* lies in (begin, begin + BLOCK_SIZE]: above the base, up to and with the
\* address of the end of the block
C15_InBlockRange ==
    op.name = "is_in_block" =>
        (op.ret <=> (allocated /\ op.a \in (begin + 1) .. (begin + BLOCK_SIZE)))

\* the address of the end of an allocated block is reported in the block
C15_Witness ==
    /\ op.name = "is_in_block"
    /\ allocated
    /\ op.a = begin + BLOCK_SIZE
    /\ op.ret

\* C12: after reset no line is marked (is_empty() is true), allocated is
\* false, hole_count is 0 and evacuation_candidate is false, whatever the
\* block was before
C12_ResetEmpties ==
    op.name = "reset" =>
        /\ ImmixBlock_is_empty(bitmap_, begin)
        /\ LineMap_is_empty(bitmap_)
        /\ ~allocated
        /\ hole_count = 0
        /\ ~evacuation_candidate

\* a reset of a block that had marked lines in its first and its last word
C12_Witness ==
    /\ op.name = "reset"
    /\ prev_bitmap[0] # {}
    /\ prev_bitmap[NumWords - 1] # {}
    /\ bitmap_ = LineMapNew

\* C13: on a block with no line marked, scan_block(0) returns one hole that
\* ends at the last byte of the block and starts at offset 0 (up to the
\* rounding to ALLOC_ALIGNMENT)
C13_FreshBlockWholeHole ==
    ( op.name = "scan_block" /\ op.a = 0 /\ LineMap_is_empty(bitmap_) )
        => ( /\ op.ret
             /\ op.out[1] < ALLOC_ALIGNMENT
             /\ op.out[2] = BLOCK_SIZE - 1 )

\* C13, amended: on a block with no line marked, scan_block(0) returns one
\* hole that ends at the last byte of the block and starts at line 2, past
\* the two lines the scan skips (the line of the cursor and the first
\* unmarked line after it)
C13_FreshBlockHoleFromLineTwo ==
    ( op.name = "scan_block" /\ op.a = 0 /\ LineMap_is_empty(bitmap_) )
        => ( /\ op.ret
             /\ op.out = << 2 * LINE_SIZE, BLOCK_SIZE - 1 >> )

\* scan_block(0) on a block that is as reset leaves it
C13_Witness ==
    /\ op.name = "scan_block" /\ op.a = 0 /\ op.ret
    /\ bitmap_ = LineMapNew
    /\ ~allocated /\ hole_count = 0 /\ ~evacuation_candidate
    /\ op.out[2] = BLOCK_SIZE - 1

\* the object of 300 bytes that starts at line 10
ObjectAtLine10 == [ at |-> 10 * LINE_SIZE, size |-> 300 ]

\* C14: when the object of 300 bytes at line 10 is the one marked object,
\* exactly the lines 10..12 are marked, scan_block(0) returns a hole whose
\* high offset is the last byte before line 10, and scan_block of that high
\* offset returns the hole from the start of line 13 to the end of the block
C14_HolesAroundLines10To12 ==
    ( live = { ObjectAtLine10 } /\ op.name = "scan_block" )
        => ( /\ bitmap_ = MapOf(10 .. 12)
             /\ op.a = 0 => ( op.ret /\ op.out[2] = 10 * LINE_SIZE - 1 )
             /\ op.a = 10 * LINE_SIZE - 1
                   => ( op.ret /\ op.out = << 13 * LINE_SIZE, BLOCK_SIZE - 1 >> ) )

\* C14, amended: the second hole starts at line 14, the scan skipping the
\* first unmarked line after the marked lines
C14_SecondHoleFromLine14 ==
    ( live = { ObjectAtLine10 } /\ op.name = "scan_block" )
        => ( /\ bitmap_ = MapOf(10 .. 12)
             /\ op.a = 0 => ( op.ret /\ op.out[2] = 10 * LINE_SIZE - 1 )
             /\ op.a = 10 * LINE_SIZE - 1
                   => ( op.ret /\ op.out = << 14 * LINE_SIZE, BLOCK_SIZE - 1 >> ) )

\* the second scan, seeded with the high offset of the first hole
C14_Witness ==
    /\ live = { ObjectAtLine10 }
    /\ op.name = "scan_block" /\ op.a = 10 * LINE_SIZE - 1 /\ op.ret
    /\ op.out[2] = BLOCK_SIZE - 1

\* the lines [line_of(object), line_of(object) + size / LINE_SIZE + 1) of the
\* object at the offset at of the block
ObjectLines(at, size) ==
    object_to_line_num(begin + at)
        .. (object_to_line_num(begin + at) + (size \div LINE_SIZE))

MarkOps == { "line_object_mark", "line_object_unmark" }

\* C16: marking an object leaves every line of [line_of(object),
\* line_of(object) + size / LINE_SIZE + 1) marked, unmarking it leaves every
\* one of them unmarked, and no other line changes
C16_ChangesExactlyObjectLines ==
    op.name \in MarkOps =>
        /\ \A l \in ObjectLines(op.a, op.b) :
               /\ l \in Lines
               /\ line_is_marked(bitmap_, begin, l) = (op.name = "line_object_mark")
        /\ \A l \in Lines \ ObjectLines(op.a, op.b) :
               line_is_marked(bitmap_, begin, l) = line_is_marked(prev_bitmap, begin, l)

\* C19: marking or unmarking an object that lies inside its block accesses
\* only lines below NUM_LINES_PER_BLOCK and does not index bitmap_ past its
\* last word
C19_MarkStaysInsideLineMap ==
    ( op.name \in MarkOps /\ op.a >= 0 /\ op.a + op.b <= BLOCK_SIZE )
        => ( /\ ~op.panic
             /\ \A l \in ObjectLines(op.a, op.b) : l < NUM_LINES_PER_BLOCK )

\* C17: a call of scan_block returns for every line map and every cursor;
\* each call it makes of itself has a cursor in a later line than the call
\* before, and it makes fewer than NUM_LINES_PER_BLOCK such calls
C17_ScanRetriesAscend ==
    op.name = "scan_block" =>
        /\ Len(op.cursors) >= 1
        /\ op.cursors[1] = op.a
        /\ op.num = Len(op.cursors) - 1
        /\ \A i \in 1 .. (Len(op.cursors) - 1) :
               op.cursors[i] \div LINE_SIZE < op.cursors[i + 1] \div LINE_SIZE
        /\ Len(op.cursors) <= NUM_LINES_PER_BLOCK

\* the only unmarked line is the last line of the block: the scan calls
\* itself and returns None
C17_Witness ==
    /\ bitmap_ = MapOf(0 .. (NUM_LINES_PER_BLOCK - 2))
    /\ op.name = "scan_block"
    /\ op.num >= 1
    /\ ~op.ret

\* the number of the lines whose bit is set in the line map
MarkedCount(bm) ==
    Cardinality({ l \in Lines : (l % WORD_BITS) \in bm[l \div WORD_BITS] })

\* one step: hole_count changes in count_holes (to the count returned) and
\* in reset (to 0) only; the two counts return the hole_count there is and
\* the number of lines marked, and of lines not marked, in the line map
C18_Step ==
    /\ op'.name = "count_holes" => hole_count' = op'.num
    /\ op'.name = "reset" => hole_count' = 0
    /\ op'.name \notin { "count_holes", "reset" } => hole_count' = hole_count
    /\ op'.name = "count_holes_and_marked_lines"
          => op'.out = << hole_count, MarkedCount(bitmap_') >>
    /\ op'.name = "count_holes_and_available_lines"
          => op'.out = << hole_count, NUM_LINES_PER_BLOCK - MarkedCount(bitmap_') >>

\* C18: the hole count that count_holes_and_marked_lines and
\* count_holes_and_available_lines return is hole_count, the value of the
\* last count_holes (0 when there was none since creation or since the last
\* reset), which marks and unmarks leave as it is; the line counts next to
\* it are those of the line map as it is now
C18_CachedHoleCount == hole_count = 0 /\ [][C18_Step]_vars

\* the holes were counted, an object was marked since, and the count
\* returned is the cached one, not the one count_holes would return now
C18_Witness ==
    /\ op.name = "count_holes_and_marked_lines"
    /\ op.out[1] = hole_count
    /\ hole_count > 0
    /\ op.out[2] > 0
    /\ hole_count # count_holes(bitmap_, begin)

\* one step: a set or a clear on an address of line i leaves the mark of
\* every other line as it was; a mark or an unmark of an object leaves
\* allocated, hole_count and evacuation_candidate as they were
C20_Step ==
    /\ ( op'.name \in { "set", "clear" } /\ ~op'.panic )
          => \A l \in Lines \ { LineOf(op'.a) } :
                 line_is_marked(bitmap_', begin, l) = line_is_marked(bitmap_, begin, l)
    /\ op'.name \in MarkOps
          => /\ allocated' = allocated
             /\ hole_count' = hole_count
             /\ evacuation_candidate' = evacuation_candidate

\* C20: called one at a time, LineMap::set and LineMap::clear on an address
\* of line i change at most the mark of line i, and line_object_mark and
\* line_object_unmark leave allocated, hole_count and evacuation_candidate
\* unchanged
C20_MarksChangeOnlyTheirLine == [][C20_Step]_vars

\* a set that marked its line in a block with another marked line, a
\* marked object, counted holes and the evacuation flag set
C20_Witness ==
    /\ op.name = "set" /\ op.ret
    /\ MarkedCount(bitmap_) >= 2
    /\ live # {}
    /\ allocated /\ hole_count > 0 /\ evacuation_candidate

====
